---- MODULE Spec2Model ----
(***************************************************************************)
(* A model of panda-grove (src/grove/grove.py): the Collection of named    *)
(* DataFrames and the multi-table merge (key-spec normalisation, column    *)
(* validation, left-to-right execution of pandas joins).                   *)
(***************************************************************************)
EXTENDS Integers, Sequences, FiniteSets, TLC

(***************************************************************************)
(* Python values.  A value carries its type tag, so that isinstance() is a *)
(* test of the tag: None, a str, an int, or a list of values.              *)
(***************************************************************************)
PyNone == [t |-> "none", s |-> "", l |-> <<>>]
PyStr(s) == [t |-> "str", s |-> s, l |-> <<>>]
PyInt(s) == [t |-> "int", s |-> s, l |-> <<>>]
PyList(l) == [t |-> "list", s |-> "", l |-> l]

isinstance_str(v) == v.t = "str"
isinstance_list(v) == v.t = "list"

\* Outcome of a step that may raise: exc = "none" and a value v, or an exception
\* type with the parts of its message (what it is about, and a number).
NoMsg == [kind |-> "", arg |-> PyNone, num |-> 0]
Ok(v) == [exc |-> "none", v |-> v, msg |-> NoMsg]
Err(e, kind, arg, num) ==
    [exc |-> e, v |-> PyNone, msg |-> [kind |-> kind, arg |-> arg, num |-> num]]
Raise(e) == Err(e, "", PyNone, 0)

(***************************************************************************)
(* _depth (grove.py 718-729): 0 for a str, 1 + depth of the first element  *)
(* for a list (on_list[0] of an empty list raises IndexError), 0 otherwise.*)
(***************************************************************************)
RECURSIVE _depth(_)
_depth(on_list) ==
    IF isinstance_str(on_list) THEN Ok(0)
    ELSE IF isinstance_list(on_list) THEN
        IF Len(on_list.l) = 0 THEN Raise("IndexError")
        ELSE LET d == _depth(on_list.l[1]) IN
             IF d.exc # "none" THEN d ELSE Ok(d.v + 1)
    ELSE Ok(0)

\* range(len(df_list) - 1) copies of x (grove.py 436, 438)
Repeat(x, k) == [j \in 1..k |-> x]

(***************************************************************************)
(* merge, grove.py 433-442: the raw `on` becomes id_list.                  *)
(***************************************************************************)
SpecNotSupported(on) == Err("GroveError", "spec_not_supported", on, 0)

\* (a slip: one pair per DataFrame instead of one per join)
id_list_of_one_per_table(n, on) ==
    IF on = PyNone THEN Ok(Repeat(PyList(<<PyNone, PyNone>>), n))
    ELSE IF isinstance_str(on) THEN Ok(Repeat(PyList(<<on, on>>), n))
    ELSE IF isinstance_list(on) THEN Ok(on.l)
    ELSE SpecNotSupported(on)

\* (a slip: the str not doubled into a [left_on, right_on] pair)
id_list_of_unpaired(n, on) ==
    IF on = PyNone THEN Ok(Repeat(PyList(<<PyNone, PyNone>>), n - 1))
    ELSE IF isinstance_str(on) THEN Ok(Repeat(PyList(<<on>>), n - 1))
    ELSE IF isinstance_list(on) THEN Ok(on.l)
    ELSE SpecNotSupported(on)

id_list_of(n, on) ==
    IF on = PyNone THEN Ok(Repeat(PyList(<<PyNone, PyNone>>), n - 1))
    ELSE IF isinstance_str(on) THEN Ok(Repeat(PyList(<<on, on>>), n - 1))
    ELSE IF isinstance_list(on) THEN Ok(on.l)
    ELSE SpecNotSupported(on)

(***************************************************************************)
(* merge, grove.py 446-471: one element of id_list becomes a               *)
(* [left_on, right_on] pair.                                               *)
(***************************************************************************)
\* (a slip: the shorthand [[a, b]] unwrapped to the pair (a, b))
merge_pair_unwrapped(m_id, on) ==
    IF isinstance_str(m_id) THEN Ok(PyList(<<m_id, m_id>>))
    ELSE IF isinstance_list(m_id) THEN
        LET d == _depth(m_id) IN
        IF d.exc # "none" THEN d
        ELSE IF d.v = 2 THEN
            IF Len(m_id.l) = 1 THEN Ok(m_id.l[1])
            ELSE IF Len(m_id.l) = 2 THEN Ok(m_id)
            ELSE SpecNotSupported(on)
        ELSE IF d.v = 1 /\ Len(m_id.l) = 2 THEN Ok(m_id)
        ELSE SpecNotSupported(on)
    ELSE SpecNotSupported(on)

\* (a slip: every depth-2 element taken for the shorthand [[a, b]])
merge_pair_first_side(m_id, on) ==
    IF isinstance_str(m_id) THEN Ok(PyList(<<m_id, m_id>>))
    ELSE IF isinstance_list(m_id) THEN
        LET d == _depth(m_id) IN
        IF d.exc # "none" THEN d
        ELSE IF d.v = 2 THEN
            IF Len(m_id.l) \in {1, 2} THEN Ok(PyList(<<m_id.l[1], m_id.l[1]>>))
            ELSE SpecNotSupported(on)
        ELSE IF d.v = 1 /\ Len(m_id.l) = 2 THEN Ok(m_id)
        ELSE SpecNotSupported(on)
    ELSE SpecNotSupported(on)

merge_pair(m_id, on) ==
    IF isinstance_str(m_id) THEN Ok(PyList(<<m_id, m_id>>))
    ELSE IF isinstance_list(m_id) THEN
        LET d == _depth(m_id) IN
        IF d.exc # "none" THEN d
        ELSE IF d.v = 2 THEN
            IF Len(m_id.l) = 1 THEN Ok(PyList(<<m_id.l[1], m_id.l[1]>>))
            ELSE IF Len(m_id.l) = 2 THEN Ok(m_id)
            ELSE SpecNotSupported(on)
        ELSE IF d.v = 1 /\ Len(m_id.l) = 2 THEN Ok(m_id)
        ELSE SpecNotSupported(on)
    ELSE SpecNotSupported(on)

\* grove.py 445-471: the loop; the first element that raises ends it.
RECURSIVE id_list_norm_from(_, _, _, _)
id_list_norm_from(id_list, i, acc, on) ==
    IF i > Len(id_list) THEN Ok(acc)
    ELSE LET p == merge_pair(id_list[i], on) IN
         IF p.exc # "none" THEN p
         ELSE id_list_norm_from(id_list, i + 1, Append(acc, p.v), on)

\* grove.py 433-471: the normalized key list for n DataFrames.
normalize(n, on) ==
    LET il == id_list_of(n, on) IN
    IF il.exc # "none" THEN il ELSE id_list_norm_from(il.v, 1, <<>>, on)

(***************************************************************************)
(* pandas DataFrames: ordered column labels (Python scalars) and ordered   *)
(* rows of cell values.  df[col_id] (grove.py 482) raises KeyError when a  *)
(* requested label is not a column.                                        *)
(***************************************************************************)
DataFrame(columns, rows) == [columns |-> columns, rows |-> rows]

HasColumn(df, c) == \E j \in 1..Len(df.columns) : df.columns[j] = c
ColumnCount(df, c) == Cardinality({j \in 1..Len(df.columns) : df.columns[j] = c})
ColumnIndex(df, c) == CHOOSE j \in 1..Len(df.columns) : df.columns[j] = c

maybe_make_list(key) == IF isinstance_list(key) THEN key.l ELSE <<key>>

df_getitem_raises(df, col_id) ==
    \E j \in 1..Len(maybe_make_list(col_id)) :
        ~HasColumn(df, maybe_make_list(col_id)[j])

(***************************************************************************)
(* pd.merge(left, right, left_on=, right_on=) as called at grove.py        *)
(* 489-494: an inner join with the default suffixes ('_x', '_y').          *)
(***************************************************************************)
Suffixed(label, suffix) == PyStr(label.s \o suffix)

\* The joined frame, for key label lists lo and ro of equal length.
inner_join(left, right, lo, ro) ==
    LET right_drop == {ro[j] : j \in {q \in 1..Len(lo) : lo[q] = ro[q]}}
        idx == [j \in 1..Len(right.columns) |-> j]
        kept == SelectSeq(idx, LAMBDA j : right.columns[j] \notin right_drop)
        overlap == {left.columns[j] : j \in
                      {q \in 1..Len(left.columns) :
                          \E k \in 1..Len(kept) :
                              right.columns[kept[k]] = left.columns[q]}}
        llabels == [j \in 1..Len(left.columns) |->
                      IF left.columns[j] \in overlap
                      THEN Suffixed(left.columns[j], "_x") ELSE left.columns[j]]
        rlabels == [k \in 1..Len(kept) |->
                      IF right.columns[kept[k]] \in overlap
                      THEN Suffixed(right.columns[kept[k]], "_y")
                      ELSE right.columns[kept[k]]]
        match(lrow, rrow) ==
            \A j \in 1..Len(lo) :
                lrow[ColumnIndex(left, lo[j])] = rrow[ColumnIndex(right, ro[j])]
        proj(rrow) == [k \in 1..Len(kept) |-> rrow[kept[k]]]
        joined(lrow) ==
            LET ms == SelectSeq(right.rows, LAMBDA rrow : match(lrow, rrow))
            IN  [k \in 1..Len(ms) |-> lrow \o proj(ms[k])]
        rows[i \in 0..Len(left.rows)] ==
            IF i = 0 THEN <<>> ELSE rows[i - 1] \o joined(left.rows[i])
    IN  DataFrame(llabels \o rlabels, rows[Len(left.rows)])

\* Whether the suffixes make two labels of one side equal (labels that were
\* distinct before): pandas 2 refuses this with a MergeError, pandas 1
\* returns the frame with the duplicated labels.
suffix_dups(left, right, lo, ro) ==
    LET right_drop == {ro[j] : j \in {q \in 1..Len(lo) : lo[q] = ro[q]}}
        rcols == SelectSeq(right.columns, LAMBDA c : c \notin right_drop)
        overlap == {c \in {left.columns[j] : j \in 1..Len(left.columns)} :
                      \E k \in 1..Len(rcols) : rcols[k] = c}
        ren(cols, sfx) == [j \in 1..Len(cols) |->
                      IF cols[j] \in overlap THEN Suffixed(cols[j], sfx) ELSE cols[j]]
        dup(cols, sfx) ==
            \E j \in 1..Len(cols) :
                /\ \E i \in 1..(j - 1) : ren(cols, sfx)[i] = ren(cols, sfx)[j]
                /\ ~\E i \in 1..(j - 1) : cols[i] = cols[j]
    IN  dup(left.columns, "_x") \/ dup(rcols, "_y")

pd_merge(left, right, left_on, right_on, pandas) ==
    IF left_on = PyNone /\ right_on = PyNone THEN
        LET common == SelectSeq(left.columns, LAMBDA c : HasColumn(right, c)) IN
        IF Len(common) = 0 THEN Raise("MergeError")
        ELSE IF \E j \in 1..Len(common) :
                    ColumnCount(left, common[j]) > 1 \/ ColumnCount(right, common[j]) > 1
             THEN Raise("MergeError")
        ELSE IF pandas = 2 /\ suffix_dups(left, right, common, common)
             THEN Raise("MergeError")
        ELSE Ok(inner_join(left, right, common, common))
    ELSE IF left_on = PyNone \/ right_on = PyNone THEN Raise("MergeError")
    ELSE
        LET lo == maybe_make_list(left_on)
            ro == maybe_make_list(right_on)
        IN  IF Len(lo) # Len(ro) THEN Raise("ValueError")
            ELSE IF df_getitem_raises(left, left_on) \/ df_getitem_raises(right, right_on)
                 THEN Raise("KeyError")
            ELSE IF \E j \in 1..Len(lo) :
                        ColumnCount(left, lo[j]) > 1 \/ ColumnCount(right, ro[j]) > 1
                 THEN Raise("ValueError")
            ELSE IF pandas = 2 /\ suffix_dups(left, right, lo, ro)
                 THEN Raise("MergeError")
            ELSE Ok(inner_join(left, right, lo, ro))

(***************************************************************************)
(* merge, grove.py 476-484: every non-None key of pair i is looked up in   *)
(* df_list[i + k] (k = 0 left, k = 1 right); pairs and DataFrames are      *)
(* numbered from 0 as in the code, sequences here are indexed from 1.      *)
(***************************************************************************)
\* grove.py 480: the DataFrame that key k of pair i is looked up in.
\* (a slip: every key looked up in the left DataFrame of its pair)
df_num_left(i, k) == i

df_num_of(i, k) == i + k

RECURSIVE check_columns_from(_, _, _, _, _)
check_columns_from(heap, df_list, id_list_norm, i, k) ==
    IF i >= Len(id_list_norm) THEN Ok(PyNone)
    ELSE IF k >= Len(id_list_norm[i + 1].l)
         THEN check_columns_from(heap, df_list, id_list_norm, i + 1, 0)
    ELSE
        LET col_id == id_list_norm[i + 1].l[k + 1]
            df_num == df_num_of(i, k)
        IN  IF col_id = PyNone
            THEN check_columns_from(heap, df_list, id_list_norm, i, k + 1)
            ELSE IF df_num >= Len(df_list) THEN Raise("IndexError")
            ELSE IF df_getitem_raises(heap[df_list[df_num + 1]], col_id)
                 THEN Err("GroveError", "not_present", col_id, df_num)
            ELSE check_columns_from(heap, df_list, id_list_norm, i, k + 1)

\* What a merge call leaves behind: the exception or the returned object, the
\* part of merge that ended the call ("lookup", "normalize", "validate",
\* "execute", or "return"), the heap, the number of pd.merge calls that
\* returned, what was printed (the index of the DataFrame named in "Error
\* merging in"), and the key list.
MergeOutcome(r, stage, obj, heap, joins, printed, norm) ==
    [exc |-> r.exc, msg |-> r.msg, stage |-> stage, obj |-> obj, heap |-> heap,
     joins |-> joins, printed |-> printed, id_list_norm |-> norm]

(***************************************************************************)
(* merge, grove.py 487-499: the joins, left to right.  Each pd.merge       *)
(* returns a new DataFrame object; merged_df is a reference to the running *)
(* result.                                                                 *)
(***************************************************************************)
\* grove.py 489: `merged_df = pd.merge(...)` binds merged_df to the new
\* object pd.merge returned; the object it referred to before is untouched.
\* (a slip: the join written into the object merged_df refers to)
merged_df_assign_in_place(heap, merged_df, frame) ==
    [heap |-> [heap EXCEPT ![merged_df] = frame], obj |-> merged_df]

merged_df_assign(heap, merged_df, frame) ==
    [heap |-> Append(heap, frame), obj |-> Len(heap) + 1]

RECURSIVE merge_from(_, _, _, _, _, _)
merge_from(heap, df_list, id_list_norm, i, merged_df, pandas) ==
    IF i >= Len(id_list_norm)
    THEN MergeOutcome(Ok(PyNone), "return", merged_df, heap, i, <<>>, id_list_norm)
    ELSE IF i + 1 >= Len(df_list)
    THEN MergeOutcome(Raise("IndexError"), "execute", 0, heap, i, <<i>>, id_list_norm)
    ELSE
        LET m_id == id_list_norm[i + 1]
            r == pd_merge(heap[merged_df], heap[df_list[i + 2]],
                          m_id.l[1], m_id.l[2], pandas)
        IN  IF r.exc # "none"
            THEN MergeOutcome(r, "execute", 0, heap, i, <<i>>, id_list_norm)
            ELSE LET a == merged_df_assign(heap, merged_df, r.v)
                 IN  merge_from(a.heap, df_list, id_list_norm, i + 1, a.obj, pandas)

\* (a slip: each pair checked only when its join is about to run)
RECURSIVE merge_checking_from(_, _, _, _, _, _)
merge_checking_from(heap, df_list, id_list_norm, i, merged_df, pandas) ==
    IF i >= Len(id_list_norm)
    THEN MergeOutcome(Ok(PyNone), "return", merged_df, heap, i, <<>>, id_list_norm)
    ELSE
        LET chk == check_columns_from(heap, df_list, SubSeq(id_list_norm, 1, i + 1), i, 0)
        IN  IF chk.exc # "none"
            THEN MergeOutcome(chk, "validate", 0, heap, i, <<>>, id_list_norm)
            ELSE IF i + 1 >= Len(df_list)
            THEN MergeOutcome(Raise("IndexError"), "execute", 0, heap, i, <<i>>, id_list_norm)
            ELSE
                LET m_id == id_list_norm[i + 1]
                    r == pd_merge(heap[merged_df], heap[df_list[i + 2]],
                                  m_id.l[1], m_id.l[2], pandas)
                IN  IF r.exc # "none"
                    THEN MergeOutcome(r, "execute", 0, heap, i, <<i>>, id_list_norm)
                    ELSE LET a == merged_df_assign(heap, merged_df, r.v)
                         IN  merge_checking_from(a.heap, df_list, id_list_norm, i + 1,
                                                 a.obj, pandas)

merge_check_as_you_go(heap, df_list, on, pandas) ==
    LET norm == normalize(Len(df_list), on) IN
    IF norm.exc # "none" THEN MergeOutcome(norm, "normalize", 0, heap, 0, <<>>, <<>>)
    ELSE IF Len(df_list) = 0
         THEN MergeOutcome(Raise("IndexError"), "execute", 0, heap, 0, <<>>, norm.v)
    ELSE merge_checking_from(heap, df_list, norm.v, 0, df_list[1], pandas)

\* merge(df_list, on), grove.py 357-499; df_list holds references into heap.
merge(heap, df_list, on, pandas) ==
    LET norm == normalize(Len(df_list), on) IN
    IF norm.exc # "none" THEN MergeOutcome(norm, "normalize", 0, heap, 0, <<>>, <<>>)
    ELSE
        LET chk == check_columns_from(heap, df_list, norm.v, 0, 0) IN
        IF chk.exc # "none" THEN MergeOutcome(chk, "validate", 0, heap, 0, <<>>, norm.v)
        ELSE IF Len(df_list) = 0
             THEN MergeOutcome(Raise("IndexError"), "execute", 0, heap, 0, <<>>, norm.v)
        ELSE merge_from(heap, df_list, norm.v, 0, df_list[1], pandas)

(***************************************************************************)
(* Collection (grove.py 23-354).  _data_frames is the dict from name to    *)
(* DataFrame object: a function whose domain is the set of names bound.    *)
(***************************************************************************)
\* (a slip: only the first missing name reported)
Collection_getitem_first_missing(data_frames, df_names) ==
    LET names == IF isinstance_str(df_names) THEN <<df_names>> ELSE df_names.l
        missing_names == SelectSeq(names, LAMBDA name : name.s \notin DOMAIN data_frames)
        df_list == [j \in 1..Len(names) |-> data_frames[names[j].s]]
    IN  IF Len(missing_names) # 0
        THEN Err("GroveError", "not_in_collection", PyList(<<missing_names[1]>>), 0)
        ELSE Ok([single |-> Len(df_list) = 1, objs |-> df_list])

\* Collection.__getitem__, grove.py 78-93.  df_names is a str or a list of str.
Collection_getitem(data_frames, df_names) ==
    LET names == IF isinstance_str(df_names) THEN <<df_names>> ELSE df_names.l
        missing_names == SelectSeq(names, LAMBDA name : name.s \notin DOMAIN data_frames)
        df_list == [j \in 1..Len(names) |-> data_frames[names[j].s]]
    IN  IF Len(missing_names) # 0
        THEN Err("GroveError", "not_in_collection", PyList(missing_names), 0)
        ELSE Ok([single |-> Len(df_list) = 1, objs |-> df_list])

\* Collection.merge, grove.py 195-197: self._data_frames[df_name] for each
\* name (a dict lookup: KeyError at the first name that is not bound), then
\* merge() on the DataFrames found.
Collection_merge(data_frames, heap, df_name_list, on, pandas) ==
    LET missing == SelectSeq(df_name_list, LAMBDA name : name \notin DOMAIN data_frames)
    IN  IF Len(missing) # 0
        THEN MergeOutcome(Err("KeyError", "", PyStr(missing[1]), 0), "lookup", 0, heap,
                          0, <<>>, <<>>)
        ELSE merge(heap, [j \in 1..Len(df_name_list) |-> data_frames[df_name_list[j]]],
                   on, pandas)

\* What can be offered as a source to Collection.__setitem__: a path (str or
\* pathlib.Path), a DataFrame object, or a value of any other type.
SrcPath(path) == [kind |-> "str", path |-> path, obj |-> 0]
SrcFrame(obj) == [kind |-> "DataFrame", path |-> "", obj |-> obj]
SrcOther == [kind |-> "other", path |-> "", obj |-> 0]

\* (a slip: an existing binding kept, as dict.setdefault would)
DictSet_keep_existing(d, key, value) ==
    [n \in DOMAIN d \cup {key} |-> IF n \in DOMAIN d THEN d[n] ELSE value]

\* dict assignment d[key] = value
DictSet(d, key, value) ==
    [n \in DOMAIN d \cup {key} |-> IF n = key THEN value ELSE d[n]]

\* (a slip: whatever is not a path is stored without a type check)
_add_dataframes_unchecked(data_frames, heap, files, df_name, df_source) ==
    IF df_source.kind = "str" THEN
        [exc |-> "none", heap |-> Append(heap, files[df_source.path]),
         data_frames |-> DictSet(data_frames, df_name, Len(heap) + 1)]
    ELSE [exc |-> "none", heap |-> heap,
          data_frames |-> DictSet(data_frames, df_name, df_source.obj)]

\* Collection._add_dataframes, grove.py 119-131 (files maps a path to what
\* _read_dataframe, grove.py 709-711, reads from it: a new DataFrame object).
_add_dataframes(data_frames, heap, files, df_name, df_source) ==
    IF df_source.kind = "str" THEN
        [exc |-> "none", heap |-> Append(heap, files[df_source.path]),
         data_frames |-> DictSet(data_frames, df_name, Len(heap) + 1)]
    ELSE IF df_source.kind = "DataFrame" THEN
        [exc |-> "none", heap |-> heap,
         data_frames |-> DictSet(data_frames, df_name, df_source.obj)]
    ELSE [exc |-> "TypeError", heap |-> heap, data_frames |-> data_frames]

\* What can be passed as data_sources to Collection(): None, a dict (its
\* items are (name, source) pairs), another iterable (elems are what
\* iterating it yields), or a value that is not iterable.
DsNone == [kind |-> "none", elems |-> <<>>]
DsDict(pairs) == [kind |-> "dict", elems |-> pairs]
DsIterable(elems) == [kind |-> "iterable", elems |-> elems]
DsOther == [kind |-> "other", elems |-> <<>>]

\* What iterating data_sources can yield: a (name, source) pair, a value
\* that cannot be unpacked at all (a number), or one that unpacks to fewer
\* than two values (each character of a plain string).
ElemPair(df_name, df_source) == [kind |-> "pair", name |-> df_name, source |-> df_source]
ElemScalar == [kind |-> "scalar", name |-> "", source |-> SrcOther]
ElemShort == [kind |-> "short", name |-> "", source |-> SrcOther]

\* Collection.__init__, grove.py 72-74: for df_name, df_source in
\* data_sources: self._add_dataframes(df_name, df_source).
RECURSIVE init_from(_, _, _, _, _)
init_from(data_frames, heap, files, elems, i) ==
    IF i > Len(elems) THEN [exc |-> "none", heap |-> heap, data_frames |-> data_frames]
    ELSE IF elems[i].kind = "scalar"
         THEN [exc |-> "TypeError", heap |-> heap, data_frames |-> data_frames]
    ELSE IF elems[i].kind = "short"
         THEN [exc |-> "ValueError", heap |-> heap, data_frames |-> data_frames]
    ELSE LET r == _add_dataframes(data_frames, heap, files, elems[i].name,
                                  elems[i].source)
         IN  IF r.exc # "none" THEN r
             ELSE init_from(r.data_frames, r.heap, files, elems, i + 1)

\* Collection.__init__, grove.py 48-76.
Collection_init(heap, files, data_sources) ==
    IF data_sources.kind = "none"
    THEN [exc |-> "none", heap |-> heap, data_frames |-> [n \in {} |-> 0]]
    ELSE IF data_sources.kind \in {"dict", "iterable"}
    THEN init_from([n \in {} |-> 0], heap, files, data_sources.elems, 1)
    ELSE [exc |-> "GroveError", heap |-> heap, data_frames |-> [n \in {} |-> 0]]

(***************************************************************************)
(* The DataFrames the caller holds before any call, after the test data    *)
(* (src/test/test_ops.py, src/test/test_bugs.py): object k is Pool[k].     *)
(***************************************************************************)
items == DataFrame(<<PyStr("id"), PyStr("name")>>, << <<"1", "a">>, <<"2", "b">> >>)
measurements == DataFrame(<<PyStr("id"), PyStr("value")>>, << <<"1", "a">>, <<"1", "b">> >>)
descriptions == DataFrame(<<PyStr("id"), PyStr("code")>>, << <<"1", "a">>, <<"2", "z">> >>)
numbered == DataFrame(<<PyInt("0"), PyInt("1")>>, << <<"a", "1">>, <<"b", "2">> >>)
Pool == <<items, measurements, descriptions, numbered>>
PoolNames == <<"items", "measurements", "descriptions", "numbered">>
Files == [path \in {"items.csv"} |-> items]

(***************************************************************************)
(* The inputs explored.                                                    *)
(***************************************************************************)
MaxTables == 3     \* longest df_list / df_name_list of arbitrary DataFrames
MaxChain == 4      \* longest df_list of DataFrames with the same columns
MaxOnLen == 2      \* longest list passed as `on`
MaxLoads == 1      \* DataFrames read from files
MaxNames == 3      \* longest list of names passed to __getitem__
MaxSources == 2    \* most elements of the data_sources passed to Collection()

SeqsUpTo(S, n) == UNION {[1..k -> S] : k \in 0..n}

Labels == {PyStr("id"), PyStr("value"), PyStr("name"), PyStr("code"), PyStr("id_x")}
KeyLists == {PyList(<<PyStr("id"), PyStr("value")>>),
             PyList(<<PyStr("value"), PyStr("id")>>), PyList(<<PyStr("id")>>)}

\* Elements of a list passed as `on`: every shape the code tells apart.
OnElements ==
    Labels \cup {PyInt("0"), PyNone}
    \cup {PyList(<<a, b>>) : a, b \in Labels}
    \cup {PyList(<<PyNone, PyNone>>), PyList(<<PyNone, PyStr("id")>>),
          PyList(<<PyStr("id"), PyNone>>), PyList(<<PyInt("0"), PyInt("0")>>),
          PyList(<<>>), PyList(<<PyStr("id")>>),
          PyList(<<PyStr("id"), PyStr("id"), PyStr("id")>>),
          PyList(<<PyStr("id"), PyList(<<PyStr("id")>>)>>),
          PyList(<<PyList(<<PyStr("id")>>), PyStr("id")>>),
          PyList(<<PyList(<<PyStr("id"), PyStr("value")>>), PyNone>>),
          PyList(<<PyNone, PyList(<<PyStr("id"), PyStr("value")>>)>>),
          PyList(<<PyList(<<>>)>>),
          PyList(<<PyList(<<PyList(<<PyStr("id")>>)>>)>>)}
    \cup {PyList(<<a>>) : a \in KeyLists}
    \cup {PyList(<<a, b>>) : a, b \in KeyLists}
    \cup {PyList(<<a, a, a>>) : a \in KeyLists}

\* Elements of the lists of more than one element.
OnElementsLong ==
    {PyStr("id"), PyList(<<PyStr("name"), PyStr("code")>>),
     PyList(<<PyStr("id"), PyStr("id_x")>>), PyList(<<PyNone, PyNone>>),
     PyList(<<PyList(<<PyStr("id"), PyStr("value")>>)>>)}

Ons ==
    {PyNone, PyInt("0")} \cup Labels
    \cup {PyList(<<e>>) : e \in OnElements}
    \cup {PyList(l) : l \in SeqsUpTo(OnElementsLong, MaxOnLen)}

\* Lists of references to the DataFrames of Pool: all the short ones, and
\* the chains of one DataFrame (every table with the same column names).
DfLists ==
    SeqsUpTo(1..Len(Pool), MaxTables) \cup {[j \in 1..k |-> 2] : k \in 1..MaxChain}

(***************************************************************************)
(* State: the installed pandas (major version), the DataFrame objects, the *)
(* Collection's _data_frames, the files, and the outcome of the call that  *)
(* has just returned to the caller (op = "none": no call has).             *)
(***************************************************************************)
VARIABLES pandas, heap, data_frames, ret
vars == <<pandas, heap, data_frames, ret>>

NoRet ==
    [op |-> "none", df_list |-> <<>>, df_names |-> PyNone, on |-> PyNone,
     name |-> "", source |-> SrcOther, exc |-> "none", msg |-> NoMsg, stage |-> "",
     obj |-> 0, objs |-> <<>>,
     single |-> FALSE, fresh |-> FALSE, joins |-> 0, printed |-> <<>>,
     id_list_norm |-> <<>>, data_sources |-> DsNone]

EmptyDict == [n \in {} |-> 0]

\* A new Collection() (grove.py 66-68), beside the caller's DataFrames.
Init ==
    /\ pandas \in {1, 2}
    /\ heap = Pool
    /\ data_frames = EmptyDict
    /\ ret = NoRet

\* The objects a merge call leaves reachable: those that existed before it,
\* and the one it returned, if that is a new one.
HeapAfter(out) ==
    IF out.obj > Len(heap)
    THEN Append(SubSeq(out.heap, 1, Len(heap)), out.heap[out.obj])
    ELSE SubSeq(out.heap, 1, Len(heap))

MergeRet(op, df_list, df_names, on, out) ==
    [NoRet EXCEPT !.op = op, !.df_list = df_list, !.df_names = df_names, !.on = on,
                  !.exc = out.exc, !.msg = out.msg, !.stage = out.stage,
                  !.obj = IF out.obj > Len(heap) THEN Len(heap) + 1 ELSE out.obj,
                  !.fresh = out.obj > Len(heap),
                  !.joins = out.joins, !.printed = out.printed,
                  !.id_list_norm = out.id_list_norm]

\* A call of the free-standing merge(df_list, on).
MergeCall(df_list, on) ==
    /\ LET out == merge(heap, df_list, on, pandas) IN
        /\ heap' = HeapAfter(out)
        /\ ret' = MergeRet("merge", df_list, PyNone, on, out)
    /\ UNCHANGED <<pandas, data_frames>>

\* A call of Collection.merge(df_name_list, on); ret.df_list keeps the
\* DataFrames the names stood for (when all are bound).
CollectionMergeCall(df_name_list, on) ==
    /\ LET out == Collection_merge(data_frames, heap, df_name_list, on, pandas) IN
        /\ heap' = HeapAfter(out)
        /\ ret' = MergeRet("Collection.merge",
                           IF \A j \in 1..Len(df_name_list) :
                                  df_name_list[j] \in DOMAIN data_frames
                           THEN [j \in 1..Len(df_name_list) |->
                                    data_frames[df_name_list[j]]]
                           ELSE <<>>,
                           PyList([j \in 1..Len(df_name_list) |-> PyStr(df_name_list[j])]),
                           on, out)
    /\ UNCHANGED <<pandas, data_frames>>

\* The collection that holds every DataFrame of Pool under its name.
InitMerge ==
    /\ pandas \in {1, 2}
    /\ heap = Pool
    /\ data_frames = [n \in {PoolNames[k] : k \in 1..Len(Pool)} |->
                         CHOOSE k \in 1..Len(Pool) : PoolNames[k] = n]
    /\ ret = NoRet

\* The caller makes a call when no call's outcome is pending.
Idle == ret.op = "none"

NextMerge ==
    \/ Idle /\ \E df_list \in DfLists, on \in Ons : MergeCall(df_list, on)
    \/ Idle /\ \E df_list \in DfLists, on \in Ons :
           CollectionMergeCall([j \in 1..Len(df_list) |-> PoolNames[df_list[j]]], on)

SpecMerge == InitMerge /\ [][NextMerge]_vars

(***************************************************************************)
(* The Collection in use: names are bound, looked up and merged.           *)
(***************************************************************************)
Names == {"items", "measurements"}
NameLists == SeqsUpTo(Names, MaxNames)
Sources == {SrcFrame(k) : k \in 1..Len(Pool)} \cup {SrcPath(p) : p \in DOMAIN Files}
               \cup {SrcOther}
OnsShort ==
    {PyNone, PyInt("0")} \cup Labels \cup {PyList(<<e>>) : e \in OnElementsLong}
    \cup {PyList(<<PyList(<<>>)>>)}

\* data[df_name] = df_source, grove.py 95-96.
SetItemCall(df_name, df_source) ==
    /\ df_source.kind = "str" => Len(heap) < Len(Pool) + MaxLoads
    /\ LET out == _add_dataframes(data_frames, heap, Files, df_name, df_source) IN
        /\ heap' = out.heap
        /\ data_frames' = out.data_frames
        /\ ret' = [NoRet EXCEPT !.op = "setitem", !.name = df_name,
                                !.source = df_source, !.exc = out.exc]
    /\ UNCHANGED pandas

\* data[df_names], grove.py 78-93.
GetItemCall(df_names) ==
    /\ LET out == Collection_getitem(data_frames, df_names) IN
        ret' = [NoRet EXCEPT !.op = "getitem", !.df_names = df_names,
                             !.exc = out.exc, !.msg = out.msg,
                             !.single = IF out.exc = "none" THEN out.v.single ELSE FALSE,
                             !.objs = IF out.exc = "none" THEN out.v.objs ELSE <<>>]
    /\ UNCHANGED <<pandas, heap, data_frames>>

\* The data_sources explored: the elements an iterable can yield, and the
\* items of a dict (pairs whose names differ).
Elems == {ElemPair(n, src) : n \in Names, src \in Sources} \cup {ElemScalar, ElemShort}
DataSources ==
    {DsNone, DsOther}
    \cup {DsIterable(l) : l \in SeqsUpTo(Elems, MaxSources)}
    \cup {DsDict(l) : l \in {q \in SeqsUpTo({e \in Elems : e.kind = "pair"}, MaxSources) :
                                \A a, b \in 1..Len(q) : q[a].name = q[b].name => a = b}}

\* data = Collection(data_sources), grove.py 48-76: when the constructor
\* returns, the caller's collection is the new one; when it raises, the
\* caller is left with the collection (and the DataFrames) it had.
ConstructCall(data_sources) ==
    LET out == Collection_init(heap, Files, data_sources) IN
        /\ Len(out.heap) <= Len(Pool) + MaxLoads
        /\ heap' = IF out.exc = "none" THEN out.heap ELSE heap
        /\ data_frames' = IF out.exc = "none" THEN out.data_frames ELSE data_frames
        /\ ret' = [NoRet EXCEPT !.op = "init", !.data_sources = data_sources,
                                !.exc = out.exc]
        /\ UNCHANGED pandas

\* The caller is done with the outcome of the last call; a DataFrame that
\* only the outcome referred to is gone with it.
Return ==
    /\ ~Idle
    /\ ret' = NoRet
    /\ heap' = IF ret.fresh THEN SubSeq(heap, 1, Len(heap) - 1) ELSE heap
    /\ UNCHANGED <<pandas, data_frames>>

Next ==
    \/ Idle /\ \E df_name \in Names, df_source \in Sources :
           SetItemCall(df_name, df_source)
    \/ Idle /\ \E df_names \in {PyStr(n) : n \in Names} \cup {PyList(l) : l \in
                    SeqsUpTo({PyStr(n) : n \in Names}, MaxNames)} : GetItemCall(df_names)
    \/ Idle /\ \E df_name_list \in NameLists, on \in OnsShort :
           CollectionMergeCall(df_name_list, on)
    \/ Idle /\ \E data_sources \in DataSources : ConstructCall(data_sources)
    \/ Return

Spec == Init /\ [][Next]_vars

(***************************************************************************)
(* The properties.  They read the outcome of the call that has just        *)
(* returned: table[j] is the j-th DataFrame passed (from 0), pairs the     *)
(* normalized key list.                                                    *)
(***************************************************************************)
IsMerge == ret.op \in {"merge", "Collection.merge"}
NumTables == Len(ret.df_list)
TableAt(j) == heap[ret.df_list[j + 1]]
Pairs == ret.id_list_norm
Returned == heap[ret.obj]
NonePair == PyList(<<PyNone, PyNone>>)

\* result_0 = table[0];
\* result_i = inner_join(result_(i-1), table[i], pairs[i-1].left, pairs[i-1].right)
RECURSIVE FoldOfJoins(_, _)
FoldOfJoins(pairs, i) ==
    IF i = 0 THEN Ok(TableAt(0))
    ELSE LET prev == FoldOfJoins(pairs, i - 1) IN
         IF prev.exc # "none" THEN prev
         ELSE pd_merge(prev.v, TableAt(i), pairs[i].l[1], pairs[i].l[2], pandas)

\* C1: a merge call over n >= 2 tables that is accepted returns the
\* left-to-right fold of n - 1 pairwise inner joins, one per table after the
\* first, in list order.
C1_MergeIsFoldOfAllTables ==
    (IsMerge /\ NumTables >= 2 /\ ret.exc = "none") =>
        /\ Len(Pairs) = NumTables - 1
        /\ ret.joins = NumTables - 1
        /\ FoldOfJoins(Pairs, NumTables - 1) = Ok(Returned)

\* The same for the calls whose `on` is absent, a str, or a list of exactly
\* n - 1 elements (it holds), and a call of each entry point where it applies.
MergeIsFoldForFullSpecs ==
    (/\ IsMerge /\ NumTables >= 2 /\ ret.exc = "none"
     /\ isinstance_list(ret.on) => Len(ret.on.l) = NumTables - 1) =>
        /\ Len(Pairs) = NumTables - 1
        /\ ret.joins = NumTables - 1
        /\ FoldOfJoins(Pairs, NumTables - 1) = Ok(Returned)

\* The four shapes of an element of a list `on`, and the pair each stands for.
IsName(v) == v.t = "str"
IsNameList(v) ==
    v.t = "list" /\ Len(v.l) >= 1 /\ \A j \in 1..Len(v.l) : IsName(v.l[j])
IsNamePair(v) == IsNameList(v) /\ Len(v.l) = 2
IsSameMulti(v) == v.t = "list" /\ Len(v.l) = 1 /\ IsNameList(v.l[1])
IsMultiPair(v) ==
    v.t = "list" /\ Len(v.l) = 2 /\ IsNameList(v.l[1]) /\ IsNameList(v.l[2])
Recognised(v) == IsName(v) \/ IsNamePair(v) \/ IsSameMulti(v) \/ IsMultiPair(v)

ExpectedPair(v) ==
    IF IsName(v) THEN PyList(<<v, v>>)
    ELSE IF IsSameMulti(v) THEN PyList(<<v.l[1], v.l[1]>>)
    ELSE PyList(<<v.l[1], v.l[2]>>)
ExpectedDepth(v) == IF IsName(v) THEN 0 ELSE IF IsNamePair(v) THEN 1 ELSE 2

\* `on` with every shorthand [[a, b]] written out as [[a, b], [a, b]].
WrittenOut(on) ==
    PyList([j \in 1..Len(on.l) |->
               IF IsSameMulti(on.l[j]) THEN PyList(<<on.l[j].l[1], on.l[j].l[1]>>)
               ELSE on.l[j]])

\* Two merge outcomes with the same result: the same exception raised in the
\* same part after the same number of joins, or equal tables returned.
SameResult(a, b) ==
    /\ a.exc = b.exc /\ a.stage = b.stage /\ a.joins = b.joins
    /\ a.exc = "none" => a.heap[a.obj] = b.heap[b.obj]
AsOutcome ==
    [exc |-> ret.exc, stage |-> ret.stage, joins |-> ret.joins, heap |-> heap,
     obj |-> ret.obj]

\* C2: the normalizer maps an absent `on` to n-1 pairs (None, None), a str s
\* to n-1 pairs (s, s), and a list to one pair per element: s -> (s, s),
\* [a, b] -> (a, b), [[a, b]] -> ([a, b], [a, b]), [[a1, b1], [a2, b2]] ->
\* ([a1, b1], [a2, b2]); the depths of these shapes are 0, 1, 2, 2; and the
\* shorthand [[a, b]] gives the same merge result as [[a, b], [a, b]].
C2_NormalizerMapping ==
    (IsMerge /\ NumTables >= 1) =>
        /\ ret.on = PyNone =>
               ret.stage # "normalize" /\ Pairs = Repeat(NonePair, NumTables - 1)
        /\ IsName(ret.on) =>
               /\ ret.stage # "normalize"
               /\ Pairs = Repeat(PyList(<<ret.on, ret.on>>), NumTables - 1)
        /\ (ret.on.t = "list" /\ \A j \in 1..Len(ret.on.l) : Recognised(ret.on.l[j])) =>
               /\ ret.stage # "normalize"
               /\ Len(Pairs) = Len(ret.on.l)
               /\ \A j \in 1..Len(ret.on.l) :
                      /\ Pairs[j] = ExpectedPair(ret.on.l[j])
                      /\ _depth(ret.on.l[j]) = Ok(ExpectedDepth(ret.on.l[j]))
               /\ SameResult(AsOutcome,
                             merge(heap, ret.df_list, WrittenOut(ret.on), pandas))

\* A call whose list `on` holds the shorthand [['id', 'value']] and returned.
C2_Witness ==
    /\ IsMerge /\ ret.exc = "none" /\ ret.joins >= 1 /\ ret.on.t = "list"
    /\ \E j \in 1..Len(ret.on.l) : IsSameMulti(ret.on.l[j]) /\ Len(ret.on.l[j].l[1].l) = 2

\* The keys of the normalized list, numbered as in the code: pair i from 0,
\* side k = 0 (left) or 1 (right); key (i, k) is looked up in table i + k.
KeyAt(i, k) == Pairs[i + 1].l[k + 1]
NamesAbsentColumn(df, key) ==
    IF key.t = "list"
    THEN \E j \in 1..Len(key.l) : \A c \in 1..Len(df.columns) : df.columns[c] # key.l[j]
    ELSE \A c \in 1..Len(df.columns) : df.columns[c] # key
MissingKeys ==
    {p \in (0..(Len(Pairs) - 1)) \X {0, 1} :
        /\ KeyAt(p[1], p[2]) # PyNone
        /\ p[1] + p[2] < NumTables
        /\ NamesAbsentColumn(TableAt(p[1] + p[2]), KeyAt(p[1], p[2]))}
FirstOf(S) ==
    CHOOSE p \in S : \A q \in S : p[1] < q[1] \/ (p[1] = q[1] /\ p[2] <= q[2])

FoldGoesThrough ==
    /\ NumTables >= 2 /\ Len(Pairs) = NumTables - 1
    /\ FoldOfJoins(Pairs, NumTables - 1).exc = "none"
\* The left key of some pair i >= 1 names a column that table i lacks.
LeftKeyFromEarlierTable ==
    \E i \in 1..(Len(Pairs) - 1) :
        /\ KeyAt(i, 0) # PyNone
        /\ NamesAbsentColumn(TableAt(i), KeyAt(i, 0))

\* C4: the left key of step i >= 1 may name any column of the running result,
\* also one that only an earlier table brought in and table i lacks: such a
\* merge passes validation and returns the fold of joins.
C4_LeftKeyMayComeFromRunningResult ==
    (/\ IsMerge /\ ret.stage \notin {"lookup", "normalize"}
     /\ FoldGoesThrough /\ LeftKeyFromEarlierTable) =>
        /\ ret.exc = "none"
        /\ FoldOfJoins(Pairs, NumTables - 1) = Ok(Returned)

\* C5: `on` a single label that is not a str (the int 0), over tables that
\* all have that column: the call returns the fold of inner joins on it.
C5_NonStringLabelAccepted ==
    (/\ IsMerge /\ ret.on.t = "int" /\ NumTables >= 2
     /\ \A j \in 0..(NumTables - 1) : HasColumn(TableAt(j), ret.on)) =>
        /\ ret.exc = "none"
        /\ FoldOfJoins(Repeat(PyList(<<ret.on, ret.on>>), NumTables - 1),
                       NumTables - 1) = Ok(Returned)

\* c_k for k = 0, 1, ...
Digits == <<"0", "1", "2", "3", "4", "5", "6", "7", "8", "9">>
Numbered(c, k) == PyStr(c.s \o "_" \o Digits[k + 1])
Distinct(seq) == \A i, j \in 1..Len(seq) : seq[i] = seq[j] => i = j

\* C6: n tables with the same two columns (the key and a column c), merged
\* on the key: the result has pairwise distinct column names, the key followed
\* by c_0, ..., c_(n-1).
C6_SuffixesNumberTheTables ==
    (/\ IsMerge /\ NumTables >= 2 /\ IsName(ret.on)
     /\ \A j \in 0..(NumTables - 1) :
            /\ Len(TableAt(j).columns) = 2
            /\ TableAt(j).columns = TableAt(0).columns
            /\ TableAt(j).columns[1] = ret.on) =>
        /\ ret.exc = "none"
        /\ Distinct(Returned.columns)
        /\ Returned.columns =
               <<ret.on>> \o [k \in 1..NumTables |->
                                 Numbered(TableAt(0).columns[2], k - 1)]

SingleTableReturned ==
    ret.exc = "none" /\ ret.joins = 0 /\ Returned = TableAt(0)

\* C7 as claimed: a merge call over a single table returns a table equal to
\* it, with no join and no error, whatever key spec is passed (any value of
\* the types `on` is declared with, grove.py 357: None, a str, or a list).
C7_SingleTableAnySpec ==
    (IsMerge /\ NumTables = 1 /\ ret.on.t \in {"none", "str", "list"}) =>
        SingleTableReturned

\* C7 as amended: it does for a key spec that is absent, a str, or an empty list.
C7_SingleTableNoPairs ==
    (/\ IsMerge /\ NumTables = 1
     /\ ret.on = PyNone \/ IsName(ret.on) \/ ret.on = PyList(<<>>)) =>
        SingleTableReturned

\* A single table merged with on = a str that is not even one of its columns.
C7_Witness ==
    /\ IsMerge /\ NumTables = 1 /\ IsName(ret.on) /\ ~HasColumn(TableAt(0), ret.on)
    /\ SingleTableReturned

\* col is the only column name that the running result and the table joined
\* in have in common, at every step of the natural join of the tables.
SharedColumns(a, b) ==
    {a.columns[j] : j \in {q \in 1..Len(a.columns) : HasColumn(b, a.columns[q])}}
SoleSharedColumn(col) ==
    /\ NumTables >= 2
    /\ \A i \in 1..(NumTables - 1) :
           LET prev == FoldOfJoins(Repeat(NonePair, NumTables - 1), i - 1) IN
           prev.exc = "none" /\ SharedColumns(prev.v, TableAt(i)) = {col}

\* C8: with col the only shared column at each step, merge with `on` omitted,
\* with on = col, and with the list of [col, col] pairs return the same table.
C8_EquivalentSpecsSameTable ==
    (IsMerge /\ ret.on = PyNone /\ NumTables >= 2) =>
        \A col \in Labels :
            SoleSharedColumn(col) =>
                /\ ret.exc = "none"
                /\ SameResult(AsOutcome, merge(heap, ret.df_list, col, pandas))
                /\ SameResult(AsOutcome,
                              merge(heap, ret.df_list,
                                    PyList(Repeat(PyList(<<col, col>>), NumTables - 1)),
                                    pandas))

\* Three tables that share only 'id', merged with `on` omitted.
C8_Witness ==
    /\ IsMerge /\ ret.on = PyNone /\ NumTables = 3 /\ ret.exc = "none"
    /\ SoleSharedColumn(PyStr("id"))
    /\ Len(Returned.rows) >= 1

\* C9: a merge call, returning or raising (in normalization, validation or
\* execution), leaves every DataFrame that existed before it as it was, and
\* the Collection's _data_frames as it was.
C9_MergeLeavesInputsAlone ==
    [][(ret'.op \in {"merge", "Collection.merge"} /\ ret.op = "none") =>
          /\ data_frames' = data_frames
          /\ Len(heap') >= Len(heap)
          /\ \A k \in 1..Len(heap) : heap'[k] = heap[k]]_vars

\* A call that raised in execution after a join had been made.
C9_Witness ==
    /\ IsMerge /\ ret.stage = "execute" /\ ret.joins >= 1
    /\ ret.op = "Collection.merge"

\* The names requested from the Collection, and those of them (all, in the
\* order requested) that d does not bind.
Requested(df_names) == IF df_names.t = "str" THEN <<df_names>> ELSE df_names.l
RECURSIVE MissingIn(_, _)
MissingIn(names, d) ==
    IF Len(names) = 0 THEN <<>>
    ELSE (IF Head(names).s \in DOMAIN d THEN <<>> ELSE <<Head(names)>>)
             \o MissingIn(Tail(names), d)

\* C10: a lookup of a name or a list of names of which some are not bound
\* raises GroveError listing every missing name in request order and returns
\* no table; when all are bound it returns their tables in request order;
\* either way the mapping is left as it was.
C10_LookupListsEveryMissingName ==
    [][(ret'.op = "getitem" /\ ret.op = "none") =>
          LET names == Requested(ret'.df_names)
              missing == MissingIn(names, data_frames)
          IN  /\ data_frames' = data_frames
              /\ heap' = heap
              /\ IF Len(missing) # 0
                 THEN /\ ret'.exc = "GroveError"
                      /\ ret'.msg.kind = "not_in_collection"
                      /\ ret'.msg.arg = PyList(missing)
                      /\ ret'.objs = <<>>
                 ELSE /\ ret'.exc = "none"
                      /\ ret'.objs = [j \in 1..Len(names) |-> data_frames[names[j].s]]
                      /\ ret'.single = (Len(names) = 1)]_vars

\* A lookup of three names of which one is bound and two are reported missing.
C10_Witness ==
    /\ ret.op = "getitem" /\ ret.exc = "GroveError"
    /\ Len(Requested(ret.df_names)) = 3
    /\ Len(ret.msg.arg.l) = 2
    /\ \E j \in 1..3 : Requested(ret.df_names)[j].s \in DOMAIN data_frames

\* C11: Collection.merge with some name not bound in the collection raises
\* GroveError listing every missing name (in request order), and does so at
\* the lookup, before any normalization, validation or join.
C11_MergeListsEveryMissingName ==
    (ret.op = "Collection.merge" /\ Len(MissingIn(ret.df_names.l, data_frames)) # 0) =>
        /\ ret.exc = "GroveError"
        /\ ret.msg.kind = "not_in_collection"
        /\ ret.msg.arg = PyList(MissingIn(ret.df_names.l, data_frames))
        /\ ret.stage = "lookup"
        /\ ret.joins = 0

\* C12: a put of a path or a DataFrame under a name succeeds and binds the
\* name to that table (the DataFrame object given, or the new one read from
\* the path), whether or not the name was bound; every other binding and
\* every DataFrame object that existed, the one bound before included, is
\* as it was; and nothing but a put (or the making of a new Collection)
\* changes a binding, so each name stays bound to the table of the most
\* recent put for it.
C12_PutBindsMostRecentTable ==
    [][/\ (ret.op = "none" /\ ret'.op = "setitem" /\ ret'.source.kind # "other") =>
            /\ ret'.exc = "none"
            /\ DOMAIN data_frames' = DOMAIN data_frames \cup {ret'.name}
            /\ \A n \in DOMAIN data_frames \ {ret'.name} :
                   data_frames'[n] = data_frames[n]
            /\ \A k \in 1..Len(heap) : k <= Len(heap') /\ heap'[k] = heap[k]
            /\ ret'.source.kind = "DataFrame" =>
                   data_frames'[ret'.name] = ret'.source.obj /\ heap' = heap
            /\ ret'.source.kind = "str" =>
                   /\ data_frames'[ret'.name] = Len(heap) + 1
                   /\ heap' = Append(heap, Files[ret'.source.path])
       /\ ret'.op \notin {"setitem", "init"} => data_frames' = data_frames]_vars

\* A put has just replaced a binding: only its name is bound, and the
\* DataFrame that an earlier put read from a file is bound no more, yet is
\* still what was read.
C12_Witness ==
    /\ ret.op = "setitem" /\ ret.exc = "none"
    /\ DOMAIN data_frames = {ret.name}
    /\ Len(heap) > Len(Pool)
    /\ data_frames[ret.name] <= Len(Pool)
    /\ heap[Len(heap)] = Files["items.csv"]

\* C13: a put whose source is neither a path (str, Path) nor a DataFrame
\* raises TypeError and leaves the mapping as it was: no binding is made for
\* the name, and a binding the name had is kept.
C13_PutOfOtherTypeRejected ==
    [][(ret.op = "none" /\ ret'.op = "setitem" /\ ret'.source.kind = "other") =>
          /\ ret'.exc = "TypeError"
          /\ data_frames' = data_frames
          /\ heap' = heap]_vars

\* A put of an unsupported source under a name that is bound has been
\* rejected, while the other name is not bound.
C13_Witness ==
    /\ ret.op = "setitem" /\ ret.source.kind = "other" /\ ret.exc = "TypeError"
    /\ ret.name \in DOMAIN data_frames
    /\ DOMAIN data_frames # Names

\* data_sources is a mapping, or an iterable all of whose elements are
\* (name, source) pairs.
IsMappingOrPairs(ds) ==
    ds.kind \in {"dict", "iterable"} /\ \A j \in 1..Len(ds.elems) : ds.elems[j].kind = "pair"

\* C14: Collection(data_sources) with an argument that is given and is
\* neither a mapping nor an iterable of (name, source) pairs (a value that
\* is not iterable, or an iterable some element of which is not a pair)
\* raises GroveError.
C14_ConstructorRejectsWithGroveError ==
    (ret.op = "init" /\ ret.data_sources.kind # "none"
        /\ ~IsMappingOrPairs(ret.data_sources)) => ret.exc = "GroveError"

\* The part of C14 the code keeps: an argument that is not iterable at all is
\* rejected with GroveError and the caller's collection is as it was.
C14_NonIterableRejected ==
    (ret.op = "init" /\ ret.data_sources.kind = "other") => ret.exc = "GroveError"

C16_NormalizedListHasOnePairPerJoin ==
    (IsMerge /\ NumTables >= 1 /\ ret.stage \notin {"lookup", "normalize"}) =>
        Len(Pairs) = NumTables - 1

\* The part of C16 the code keeps: None and a str expand to n - 1 pairs.
NormalizedListOfNoneOrStr ==
    (IsMerge /\ NumTables >= 1 /\ ret.stage \notin {"lookup", "normalize"}
        /\ ret.on.t \in {"none", "str"}) => Len(Pairs) = NumTables - 1

\* A side of a written-out pair: a column name, a list of column names, or
\* None (left for pandas to infer).
IsSide(v) == v = PyNone \/ IsName(v) \/ IsNameList(v)

\* An element of a list key spec that is none of the four recognised shapes
\* (a name; a pair of names; a list of one list of names; a list of two
\* lists of names).  A pair with a None side, the written-out form of an
\* absent key, is not counted as malformed.
Malformed(v) ==
    /\ ~Recognised(v)
    /\ ~(v.t = "list" /\ Len(v.l) = 2 /\ IsSide(v.l[1]) /\ IsSide(v.l[2])
            /\ PyNone \in {v.l[1], v.l[2]})

\* C17: a list key spec with an element that is none of the recognised shapes
\* (an empty list, three names, a name mixed with a list, a list nested three
\* deep, a value that is neither str nor list) makes merge raise the
\* GroveError "specification not supported" while normalizing: before the
\* column check and before any join.
C17_MalformedElementIsSpecError ==
    (IsMerge /\ ret.stage # "lookup" /\ ret.on.t = "list"
        /\ \E j \in 1..Len(ret.on.l) : Malformed(ret.on.l[j])) =>
        /\ ret.exc = "GroveError" /\ ret.msg.kind = "spec_not_supported"
        /\ ret.stage = "normalize" /\ ret.joins = 0

\* The DataFrame objects passed to the call, and those the Collection holds.
InputObjects == {ret.df_list[j] : j \in 1..Len(ret.df_list)}
CollectionObjects == {data_frames[n] : n \in DOMAIN data_frames}
ReturnedIsNew ==
    /\ ret.fresh
    /\ ret.obj \notin InputObjects \cup CollectionObjects
    /\ ret.obj > Len(Pool)

\* C18 as claimed: the table a merge call over n >= 1 tables returns is always
\* a new object, never one of the inputs nor one the Collection holds.
C18_ReturnedTableAlwaysNew ==
    (IsMerge /\ ret.exc = "none" /\ NumTables >= 1) => ReturnedIsNew

\* C18, amended: the table returned is a new object, none of the inputs and
\* none the Collection holds, when at least one join has run; when none has
\* (a single table, or no pair to join on) it is the first input itself.
C18_ReturnedTableNewAfterAJoin ==
    (IsMerge /\ ret.exc = "none" /\ NumTables >= 1) =>
        IF ret.joins >= 1 THEN ReturnedIsNew
        ELSE ret.obj = ret.df_list[1] /\ ~ret.fresh /\ heap = Pool

\* Collection.merge has returned the join of three of its tables.
C18_Witness ==
    /\ ret.op = "Collection.merge" /\ ret.exc = "none"
    /\ NumTables = 3 /\ ret.joins = 2
    /\ ret.obj = Len(Pool) + 1 /\ Len(heap) = Len(Pool) + 1

\* pd.merge raised at step ret.joins (steps from 0), where table
\* ret.joins + 1 was being joined into the running result.
JoinRaised ==
    /\ IsMerge /\ ret.stage = "execute" /\ ret.exc # "none"
    /\ ret.joins + 1 < NumTables

\* C19: when pd.merge raises at step i, merge prints the table that was
\* being joined in at that step (table i + 1), the error reaches the caller,
\* no later join has run and no table is returned.
C19_FailedJoinNamesTableJoinedIn ==
    JoinRaised =>
        /\ Len(ret.printed) = 1
        /\ TableAt(ret.printed[1]) = TableAt(ret.joins + 1)
        /\ ret.obj = 0 /\ ~ret.fresh

\* What the code keeps of C19: one report is printed, naming table i; the
\* error reaches the caller and no table is returned.
FailedJoinNamesLeftTable ==
    JoinRaised =>
        /\ ret.printed = <<ret.joins>>
        /\ ret.obj = 0 /\ ~ret.fresh

\* A list key spec in written-out form: every element a pair [left, right]
\* whose sides are each a column name, a list of column names, or None.
IsPairForm(on) ==
    /\ on.t = "list"
    /\ \A j \in 1..Len(on.l) :
           on.l[j].t = "list" /\ Len(on.l[j].l) = 2
               /\ IsSide(on.l[j].l[1]) /\ IsSide(on.l[j].l[2])

\* C20: a list key spec already in pair form is normalized to itself, pair
\* for pair and in the same order; and the normalized key list of any call,
\* normalized again, is that same list.
C20_NormalizationIdempotent ==
    (IsMerge /\ ret.stage # "lookup") =>
        /\ IsPairForm(ret.on) => ret.stage # "normalize" /\ Pairs = ret.on.l
        /\ ret.stage # "normalize" =>
               normalize(NumTables, PyList(Pairs)) = Ok(Pairs)

\* A spec of two different pairs, one of them with None sides, normalized.
C20_Witness ==
    /\ IsMerge /\ IsPairForm(ret.on) /\ Len(ret.on.l) = 2 /\ NumTables = 3
    /\ ret.on.l[1] # ret.on.l[2]
    /\ NonePair \in {ret.on.l[1], ret.on.l[2]}
    /\ Pairs = ret.on.l

====
